---- MODULE Spec2Model ----
(***************************************************************************)
(* Model of seqspec/utils.py: the coordinate projector (get_cuts), the     *)
(* allow-list resolver (read_list / yield_onlist_contents) and the read    *)
(* writer (write_read).  Python strings are sequences of one-character     *)
(* strings; Python list objects are modelled by their contents, one        *)
(* variable per list object whose identity matters.                        *)
(***************************************************************************)
EXTENDS Integers, Sequences, FiniteSets, TLC

VARIABLES
    \* ---- get_cuts ----
    defaultCuts,   \* contents of the list object bound to the default `cuts=[]`
    acc,           \* contents of the caller's accumulator list object
    argRegions,    \* contents of the caller's regions list after the last call
    result,        \* value returned by the last get_cuts call
    call,          \* the last call: how it was made and its argument values
    \* ---- read_list ----
    onlist,        \* the Onlist argument: location and whether filename ends in .gz
    content,       \* text of the resource behind the Onlist
    status,        \* status code the server answers a GET with
    pc,            \* position inside read_list
    httpGets,      \* number of requests.get calls issued
    fileOpens,     \* number of open()/gzip.open() calls issued
    open,          \* resources acquired and not released
    streamType,    \* "str" for a text stream, "bytes" for a byte stream
    pos,           \* number of characters read from the stream
    tokens,        \* list built so far by list(yield_onlist_contents(stream))
    retval,        \* value returned by read_list
    err,           \* exception raised by read_list
    \* ---- write_read ----
    sink,          \* text held by the sink f
    written        \* arguments of every write_read call so far, with the sink before it

varsCuts   == <<defaultCuts, acc, argRegions, result, call>>
varsOnlist == <<onlist, content, status, pc, httpGets, fileOpens, open,
                streamType, pos, tokens, retval, err>>
varsWrite  == <<sink, written>>
vars       == <<varsCuts, varsOnlist, varsWrite>>

\* ---------------------------------------------------------------- bounds
MaxLen     == 1   \* largest max_len of a region
MaxRegions == 2   \* longest regions list passed to one get_cuts call
MaxCuts    == 3   \* longest accumulator the caller keeps extending
MaxStream  == 6   \* most characters in an allow-list
MaxField   == 2   \* longest header / sequence / quality string
MaxRecords == 2   \* most records written to one sink

SeqsUpTo(S, n) == UNION {[1..k -> S] : k \in 0..n}

NL == "\n"

\* ============================================================== get_cuts
\* get_cuts reads only max_len; the regions drawn have min_len 0 <= max_len
Regions == [min_len : {0}, max_len : 0..MaxLen]
RegionLists == SeqsUpTo(Regions, MaxRegions)

\* `not cuts`: an empty list is falsy
\* variant: the emptiness guard left out
NotCuts_never(cuts) == FALSE
NotCuts(cuts) == cuts = <<>>

\* `prev = 0`
\* variant: the cursor continues from the accumulator's last end
InitialPrev_offset(cuts) == IF cuts = <<>> THEN 0 ELSE cuts[Len(cuts)][2]
InitialPrev(cuts) == 0

\* `nxt = prev + r.max_len` and the tuple `(prev, nxt)`
\* variant: min_len used for max_len
NextCut_min(prev, r) == <<prev, prev + r.min_len>>
NextCut(prev, r) == <<prev, prev + r.max_len>>

\* the for loop: appends one cut per region and advances prev
RECURSIVE CutsLoop(_, _, _)
CutsLoop(regions, prev, cuts) ==
    IF regions = <<>> THEN cuts
    ELSE LET c == NextCut(prev, Head(regions))
         IN  CutsLoop(Tail(regions), c[2], Append(cuts, c))

\* get_cuts(regions, cuts): ret is the returned list, obj the contents of the
\* list object that was passed as `cuts` once the call is over.  When `cuts`
\* is falsy the name is rebound to a new list and the passed object is left
\* alone; otherwise the loop appends to the passed object and returns it.
get_cuts(regions, cuts) ==
    LET fresh == NotCuts(cuts)
        out   == CutsLoop(regions, InitialPrev(cuts), IF fresh THEN <<>> ELSE cuts)
    IN  [ret |-> out, obj |-> IF fresh THEN cuts ELSE out]

\* get_cuts(regions): `cuts` is bound to the shared default list object
CallDefault ==
    \E regions \in RegionLists :
        LET b == get_cuts(regions, defaultCuts) IN
        /\ Len(b.ret) <= MaxCuts
        /\ defaultCuts' = b.obj
        /\ result' = b.ret
        /\ argRegions' = regions
        /\ call' = [kind |-> "default", regions |-> regions, cutsIn |-> defaultCuts,
                    first |-> <<>>, firstKind |-> "none"]
        /\ UNCHANGED <<acc, varsOnlist, varsWrite>>

\* get_cuts(regions, cuts=acc): the caller passes the list it holds
CallHeld ==
    \E regions \in RegionLists :
        LET b == get_cuts(regions, acc) IN
        /\ Len(b.ret) <= MaxCuts
        /\ acc' = b.obj
        /\ result' = b.ret
        /\ argRegions' = regions
        /\ call' = [kind |-> "held", regions |-> regions, cutsIn |-> acc,
                    first |-> <<>>, firstKind |-> "none"]
        /\ UNCHANGED <<defaultCuts, varsOnlist, varsWrite>>

\* get_cuts(regions, cuts=<previous result>): the caller passes the list the
\* previous call returned and holds it from then on
CallChained ==
    \E regions \in RegionLists :
        LET b == get_cuts(regions, result) IN
        /\ call.kind # "none"
        /\ Len(b.ret) <= MaxCuts
        /\ acc' = b.obj
        /\ result' = b.ret
        /\ argRegions' = regions
        /\ call' = [kind |-> "chained", regions |-> regions, cutsIn |-> result,
                    first |-> call.regions, firstKind |-> call.kind]
        /\ UNCHANGED <<defaultCuts, varsOnlist, varsWrite>>

NextCuts == CallDefault \/ CallHeld \/ CallChained

\* ============================================================= read_list
Chars == {"A", "C", " ", NL}
Contents == SeqsUpTo(Chars, MaxStream)
Locations == {"local", "remote", "ftp"}
Statuses == {200, 404, 500}
Onlists == [location : Locations, gz : BOOLEAN]

\* str.strip() / str.split() whitespace
IsSpace(c) == c \in {" ", "\t", "\n", "\r"}

RECURSIVE lstrip(_)
lstrip(s) == IF s # <<>> /\ IsSpace(Head(s)) THEN lstrip(Tail(s)) ELSE s

RECURSIVE rstrip(_)
rstrip(s) == IF s # <<>> /\ IsSpace(s[Len(s)]) THEN rstrip(SubSeq(s, 1, Len(s) - 1)) ELSE s

\* str.strip()
strip(s) == rstrip(lstrip(s))

\* the leading run of non-whitespace characters
RECURSIVE Word(_)
Word(s) == IF s = <<>> \/ IsSpace(Head(s)) THEN <<>> ELSE <<Head(s)>> \o Word(Tail(s))

\* str.split(): the maximal runs of non-whitespace characters, in order
RECURSIVE split(_)
split(s) ==
    LET t == lstrip(s) IN
    IF t = <<>> THEN <<>>
    ELSE LET w == Word(t) IN <<w>> \o split(SubSeq(t, Len(w) + 1, Len(t)))

\* the subscript `[0]`
\* variant: the last column taken for the first
Column_last(fields) == fields[Len(fields)]
Column(fields) == fields[1]

\* `for line in stream`: the next line of the unread text, its terminator
\* included; the last line of a stream may have none
RECURSIVE readline(_)
readline(s) ==
    IF s = <<>> THEN <<>>
    ELSE IF Head(s) = NL THEN <<NL>>
    ELSE <<Head(s)>> \o readline(Tail(s))

\* 400 <= status < 600 makes Response.raise_for_status raise HTTPError
\* variant: the status check left out
StatusRaises_never(s) == FALSE
StatusRaises(s) == s >= 400 /\ s < 600

\* the branch conditions of read_list, in the order they are tested
IsRemote(o) == o.location = "remote"
\* variant: the suffix tested without the location
IsLocalGz_any(o) == o.gz
IsLocalGz(o) == o.location = "local" /\ o.gz
IsLocal(o) == o.location = "local"

\* leaving a `with` block closes the file; the remote branch has none
ExitScope(o, op) == IF IsRemote(o) THEN op ELSE op \ {"file"}

\* response = requests.get(onlist.filename, stream=True)
RequestsGet ==
    /\ pc = "start"
    /\ IsRemote(onlist)
    /\ httpGets' = httpGets + 1
    /\ open' = open \cup {"response"}
    /\ pc' = "status"
    /\ UNCHANGED <<varsCuts, varsWrite, onlist, content, status, fileOpens, streamType, pos, tokens, retval, err>>

\* response.raise_for_status()
RaiseForStatus ==
    /\ pc = "status"
    /\ IF StatusRaises(status)
       THEN /\ pc' = "raised"
            /\ err' = [type |-> "HTTPError", value |-> ToString(status)]
       ELSE /\ pc' = "wrap"
            /\ UNCHANGED err
    /\ UNCHANGED <<varsCuts, varsWrite, onlist, content, status, httpGets, fileOpens, open, streamType,
                   pos, tokens, retval>>

\* stream = io.TextIOWrapper(gzip.GzipFile(fileobj=response.raw)), a text
\* stream, or stream = response.raw, the byte stream of the body
WrapStream ==
    /\ pc = "wrap"
    /\ IF onlist.gz
       THEN /\ streamType' = "str"
            /\ open' = open \cup {"gzip"}
       ELSE /\ streamType' = "bytes"
            /\ UNCHANGED open
    /\ pc' = "iter"
    /\ UNCHANGED <<varsCuts, varsWrite, onlist, content, status, httpGets, fileOpens, pos, tokens, retval, err>>

\* with gzip.open(onlist.filename, "rt") as f
OpenLocalGz ==
    /\ pc = "start"
    /\ ~IsRemote(onlist)
    /\ IsLocalGz(onlist)
    /\ fileOpens' = fileOpens + 1
    /\ open' = open \cup {"file"}
    /\ streamType' = "str"
    /\ pc' = "iter"
    /\ UNCHANGED <<varsCuts, varsWrite, onlist, content, status, httpGets, pos, tokens, retval, err>>

\* with open(onlist.filename, "rt") as f
OpenLocal ==
    /\ pc = "start"
    /\ ~IsRemote(onlist)
    /\ ~IsLocalGz(onlist)
    /\ IsLocal(onlist)
    /\ fileOpens' = fileOpens + 1
    /\ open' = open \cup {"file"}
    /\ streamType' = "str"
    /\ pc' = "iter"
    /\ UNCHANGED <<varsCuts, varsWrite, onlist, content, status, httpGets, pos, tokens, retval, err>>

\* raise ValueError("Unsupported location {}. ...".format(onlist.location))
RaiseUnsupported ==
    /\ pc = "start"
    /\ ~IsRemote(onlist)
    /\ ~IsLocalGz(onlist)
    /\ ~IsLocal(onlist)
    /\ pc' = "raised"
    /\ err' = [type |-> "ValueError", value |-> onlist.location]
    /\ UNCHANGED <<varsCuts, varsWrite, onlist, content, status, httpGets, fileOpens, open, streamType,
                   pos, tokens, retval>>

\* one iteration of yield_onlist_contents inside list(...):
\* yield line.strip().split()[0]; an empty split makes [0] raise IndexError,
\* which leaves read_list through any enclosing `with`
YieldLine ==
    /\ pc = "iter"
    /\ pos < Len(content)
    /\ LET line   == readline(SubSeq(content, pos + 1, Len(content)))
           fields == split(strip(line))
       IN  /\ pos' = pos + Len(line)
           /\ IF fields = <<>>
              THEN /\ pc' = "raised"
                   /\ err' = [type |-> "IndexError", value |-> "none"]
                   /\ open' = ExitScope(onlist, open)
                   /\ UNCHANGED tokens
              ELSE /\ tokens' = Append(tokens, [type |-> streamType, chars |-> Column(fields)])
                   /\ UNCHANGED <<pc, err, open>>
    /\ UNCHANGED <<varsCuts, varsWrite, onlist, content, status, httpGets, fileOpens, streamType, retval>>

\* the stream is exhausted: return list(...), leaving any enclosing `with`
ReturnList ==
    /\ pc = "iter"
    /\ pos = Len(content)
    /\ retval' = tokens
    /\ open' = ExitScope(onlist, open)
    /\ pc' = "returned"
    /\ UNCHANGED <<varsCuts, varsWrite, onlist, content, status, httpGets, fileOpens, streamType, pos, tokens, err>>

NextOnlist ==
    \/ RequestsGet
    \/ RaiseForStatus
    \/ WrapStream
    \/ OpenLocalGz
    \/ OpenLocal
    \/ RaiseUnsupported
    \/ YieldLine
    \/ ReturnList

\* ============================================================ write_read
HeaderStrings == SeqsUpTo({"@"}, MaxField)
SeqStrings    == SeqsUpTo({"A"}, MaxField)
QualStrings   == SeqsUpTo({"I"}, MaxField)

\* f"{header}\n{seq}\n+\n{qual}\n"
\* variant: the final line terminator left out
Record_noeol(header, seq, qual) == header \o <<NL>> \o seq \o <<NL, "+", NL>> \o qual
Record(header, seq, qual) == header \o <<NL>> \o seq \o <<NL, "+", NL>> \o qual \o <<NL>>

\* write_read(header, seq, qual, f): f.write(...) appends to the sink
WriteRead ==
    \E header \in HeaderStrings, seq \in SeqStrings, qual \in QualStrings :
        /\ Len(written) < MaxRecords
        /\ sink' = sink \o Record(header, seq, qual)
        /\ written' = Append(written, [header |-> header, seq |-> seq, qual |-> qual,
                                       before |-> sink])
        /\ UNCHANGED <<varsCuts, varsOnlist>>

NextWrite == WriteRead

\* ======================================================== specifications
\* no call made yet: the default list of get_cuts is empty, read_list is at
\* its entry, the sink is empty
InitCuts ==
    /\ defaultCuts = <<>>
    /\ acc = <<>>
    /\ argRegions = <<>>
    /\ result = <<>>
    /\ call = [kind |-> "none", regions |-> <<>>, cutsIn |-> <<>>,
               first |-> <<>>, firstKind |-> "none"]
    /\ onlist = [location |-> "local", gz |-> FALSE]
    /\ content = <<>>
    /\ status = 200
    /\ pc = "start"
    /\ httpGets = 0
    /\ fileOpens = 0
    /\ open = {}
    /\ streamType = "none"
    /\ pos = 0
    /\ tokens = <<>>
    /\ retval = <<>>
    /\ err = [type |-> "none", value |-> "none"]
    /\ sink = <<>>
    /\ written = <<>>

\* read_list is entered with any Onlist, any content behind it and, for a
\* remote one, any status
InitOnlist ==
    /\ defaultCuts = <<>>
    /\ acc = <<>>
    /\ argRegions = <<>>
    /\ result = <<>>
    /\ call = [kind |-> "none", regions |-> <<>>, cutsIn |-> <<>>,
               first |-> <<>>, firstKind |-> "none"]
    /\ onlist \in Onlists
    /\ content \in Contents
    /\ status \in (IF onlist.location = "remote" THEN Statuses ELSE {200})
    /\ pc = "start"
    /\ httpGets = 0
    /\ fileOpens = 0
    /\ open = {}
    /\ streamType = "none"
    /\ pos = 0
    /\ tokens = <<>>
    /\ retval = <<>>
    /\ err = [type |-> "none", value |-> "none"]
    /\ sink = <<>>
    /\ written = <<>>

\* a new, empty sink; nothing else has been called
InitWrite ==
    /\ defaultCuts = <<>>
    /\ acc = <<>>
    /\ argRegions = <<>>
    /\ result = <<>>
    /\ call = [kind |-> "none", regions |-> <<>>, cutsIn |-> <<>>,
               first |-> <<>>, firstKind |-> "none"]
    /\ onlist = [location |-> "local", gz |-> FALSE]
    /\ content = <<>>
    /\ status = 200
    /\ pc = "start"
    /\ httpGets = 0
    /\ fileOpens = 0
    /\ open = {}
    /\ streamType = "none"
    /\ pos = 0
    /\ tokens = <<>>
    /\ retval = <<>>
    /\ err = [type |-> "none", value |-> "none"]
    /\ sink = <<>>
    /\ written = <<>>

SpecCuts   == InitCuts /\ [][NextCuts]_vars
SpecOnlist == InitOnlist /\ [][NextOnlist]_vars
SpecWrite  == InitWrite /\ [][NextWrite]_vars

\* ================================================================ claims
RECURSIVE SumMax(_, _)
SumMax(regions, k) == IF k = 0 THEN 0 ELSE SumMax(regions, k - 1) + regions[k].max_len

\* the intervals (0,m1), (m1,m1+m2), ... of a regions list
ExpectedCuts(regions) ==
    [i \in 1..Len(regions) |-> <<SumMax(regions, i - 1), SumMax(regions, i)>>]

\* C1: get_cuts(regions) without an accumulator returns one interval per
\* region, in order; the first starts at 0, each later one starts at the end
\* of the one before, and each ends at its start plus the region's max_len.
C1_CutsChain ==
    call.kind = "default" =>
        /\ Len(result) = Len(call.regions)
        /\ \A i \in 1..Len(result) :
              /\ result[i][1] = (IF i = 1 THEN 0 ELSE result[i - 1][2])
              /\ result[i][2] = result[i][1] + call.regions[i].max_len

C1_Witness ==
    /\ call.kind = "default"
    /\ Len(call.regions) = 2
    /\ call.regions[1].max_len > call.regions[1].min_len
    /\ call.regions[2].max_len = 0
    /\ result[2][1] = result[2][2]
    /\ result[2][1] > 0

\* the call get_cuts([r3], cuts=get_cuts([r1, r2])) has just been made
ComposedCall ==
    /\ call.kind = "chained"
    /\ call.firstKind = "default"
    /\ Len(call.first) = 2
    /\ Len(call.regions) = 1

\* C2 as stated: get_cuts([r3], cuts=get_cuts([r1, r2])) equals
\* get_cuts([r1, r2, r3]).
C2_Composable ==
    ComposedCall => result = ExpectedCuts(call.first \o call.regions)

\* C2 amended: get_cuts([r3], cuts=get_cuts([r1, r2])) is get_cuts([r1, r2])
\* followed by (0, m3): the new interval starts at 0, not at the end of the
\* accumulator, so the result equals get_cuts([r1, r2, r3]) exactly when
\* m1 + m2 = 0.
C2_ChainRestartsAtZero ==
    ComposedCall =>
        /\ result = ExpectedCuts(call.first) \o ExpectedCuts(call.regions)
        /\ result[3] = <<0, call.regions[1].max_len>>
        /\ (result = ExpectedCuts(call.first \o call.regions)) <=> (SumMax(call.first, 2) = 0)

C2_Witness ==
    /\ ComposedCall
    /\ SumMax(call.first, 2) > 0
    /\ call.regions[1].max_len > 0
    /\ result[3][1] = 0

\* C3 as stated: a call changes neither its regions argument nor a supplied
\* accumulator, empty or not, and its result is a function of its arguments.
C3_Pure ==
    /\ argRegions = call.regions
    /\ call.kind \in {"held", "chained"} => acc = call.cutsIn
    /\ call.kind # "none" => result = call.cutsIn \o ExpectedCuts(call.regions)

\* C3 amended: a call changes neither its regions argument, nor the shared
\* default list, nor an empty supplied accumulator, and after any earlier
\* calls its result is the supplied accumulator's contents followed by the
\* intervals of the regions; a non-empty supplied accumulator is extended in
\* place and is the list returned.
C3_Effects ==
    /\ defaultCuts = <<>>
    /\ argRegions = call.regions
    /\ call.kind = "default" => call.cutsIn = <<>>
    /\ call.kind \in {"held", "chained"} =>
          acc = (IF call.cutsIn = <<>> THEN <<>> ELSE result)
    /\ call.kind # "none" => result = call.cutsIn \o ExpectedCuts(call.regions)

C3_Witness ==
    /\ call.kind = "held"
    /\ call.cutsIn # <<>>
    /\ call.regions # <<>>
    /\ acc = result
    /\ Len(acc) > Len(call.cutsIn)

\* ---- allow-list resolver
RECURSIVE UntilNL(_)
UntilNL(s) == IF s = <<>> \/ Head(s) = NL THEN <<>> ELSE <<Head(s)>> \o UntilNL(Tail(s))

\* the lines of a text, split at every line terminator
RECURSIVE TextLines(_)
TextLines(s) ==
    IF s = <<>> THEN <<>>
    ELSE LET l == UntilNL(s) IN <<l>> \o TextLines(SubSeq(s, Len(l) + 2, Len(s)))

HasToken(line) == \E k \in 1..Len(line) : ~IsSpace(line[k])

\* t is the first whitespace-delimited token of line
IsFirstToken(line, t) ==
    \E i, j \in 1..Len(line) :
        /\ i <= j
        /\ \A k \in 1..(i - 1) : IsSpace(line[k])
        /\ \A k \in i..j : ~IsSpace(line[k])
        /\ j = Len(line) \/ IsSpace(line[j + 1])
        /\ t = SubSeq(line, i, j)

Supported == onlist.location \in {"local", "remote"}
Success(s) == s >= 200 /\ s < 300

\* C4: when every line holds a token, the resolver yields one token per
\* line, the line's first whitespace-delimited token, in file order,
\* duplicates kept.
C4_FirstTokens ==
    LET lines == TextLines(content) IN
    (\A i \in 1..Len(lines) : HasToken(lines[i])) =>
        /\ err.type # "IndexError"
        /\ Len(tokens) <= Len(lines)
        /\ \A i \in 1..Len(tokens) : IsFirstToken(lines[i], tokens[i].chars)
        /\ pc = "returned" => retval = tokens /\ Len(retval) = Len(lines)

C4_Witness ==
    /\ pc = "returned"
    /\ Len(retval) = 2
    /\ retval[1].chars = retval[2].chars
    /\ TextLines(content) = <<<<"A", " ", "C">>, <<"A">>>>

\* C5: blank and whitespace-only lines are skipped: the resolver does not
\* raise on them and returns the first tokens of the other lines, in order.
C5_BlankLinesSkipped ==
    LET kept == SelectSeq(TextLines(content), HasToken) IN
    (Supported /\ Success(status) /\ Len(kept) < Len(TextLines(content))) =>
        /\ err.type = "none"
        /\ pc = "returned" =>
              /\ Len(retval) = Len(kept)
              /\ \A i \in 1..Len(kept) : IsFirstToken(kept[i], retval[i].chars)

\* what read_list returns for a local plain file holding the content
LocalPlainResult(c) ==
    [i \in 1..Len(TextLines(c)) |->
        [type |-> "str", chars |-> Column(split(strip(TextLines(c)[i])))]]

\* C6: whatever the transport and compression, read_list returns the token
\* list, values and element type, that the local plain file gives.
C6_Orthogonal ==
    pc = "returned" => retval = LocalPlainResult(content)

\* C7: an unsupported location raises an error naming the location, with no
\* HTTP request issued and no file opened.
C7_UnsupportedNoIO ==
    ~Supported =>
        /\ httpGets = 0
        /\ fileOpens = 0
        /\ open = {}
        /\ pos = 0
        /\ pc \in {"start", "raised"}
        /\ pc = "raised" => err = [type |-> "ValueError", value |-> onlist.location]

C7_Witness ==
    /\ pc = "raised"
    /\ onlist = [location |-> "ftp", gz |-> TRUE]
    /\ err.type = "ValueError"
    /\ content # <<>>

C9_AllReleased ==
    pc \in {"returned", "raised"} => open = {}

\* ---- read writer
SinkAfter(k) == IF k < Len(written) THEN written[k + 1].before ELSE sink

\* C10: every write_read call appends exactly four newline-terminated
\* lines, header, sequence, "+", quality, in that order, and leaves what
\* the sink already held unchanged.
C10_FourLines ==
    \A k \in 1..Len(written) :
        LET w      == written[k]
            after  == SinkAfter(k)
            suffix == SubSeq(after, Len(w.before) + 1, Len(after))
        IN  /\ Len(after) >= Len(w.before)
            /\ SubSeq(after, 1, Len(w.before)) = w.before
            /\ suffix # <<>> /\ suffix[Len(suffix)] = NL
            /\ TextLines(suffix) = <<w.header, w.seq, <<"+">>, w.qual>>

C10_Witness ==
    /\ Len(written) = 2
    /\ written[2].before # <<>>
    /\ Len(written[2].seq) # Len(written[2].qual)
    /\ Len(TextLines(sink)) = 8
====
